---- MODULE Spec2Model ----
(***************************************************************************)
(* Model of the GitLab backup pipeline (runBackup and the functions it     *)
(* calls) of gitlab-rclone-remote-backup.                                  *)
(*                                                                         *)
(* Spec           one call of runBackup: create -> find -> (zip) ->        *)
(*                upload to every remote -> prune every remote -> notify,  *)
(*                with the deferred removal of the temporary zip.          *)
(* RetentionSpec  pruneOldBackups applied repeatedly to one remote, with   *)
(*                uploads arriving in between.                             *)
(*                                                                         *)
(* File names and glob patterns are sequences of tokens: "*" and "?" are   *)
(* the wildcards of path.Match, "[" is an unterminated character class (a  *)
(* malformed pattern), every other token is literal text.                  *)
(***************************************************************************)
EXTENDS Integers, Sequences, FiniteSets, TLC

VARIABLES
    cfg,        \* the Config value of the process (never changes)
    dir,        \* files of cfg.BackupDir: records [name, mt, statable]
    localZip,   \* the file at zipPath: "absent", "partial", "empty", "complete"
    remote,     \* remote[d]: the objects stored at cfg.RcloneRemotes[d]
    pc,         \* position of runBackup
    idx,        \* loop index over cfg.RcloneRemotes (upload, then prune)
    lastErr,    \* uploadToRemotes: lastErr != nil
    backupFile, \* runBackup: backupFile (NoFile = "")
    uploadFile, \* runBackup: uploadFile (NoFile = "")
    deferred,   \* runBackup: the deferred os.Remove(uploadFile) is registered
    warnings,   \* runBackup: warnings, as the sequence of remotes they name
    result,     \* value returned by runBackup: "none" (running), "nil", "error"
    ops,        \* every external call made so far, in order
    main,       \* position of main / runWithScheduler ("none": no process)
    cron,       \* the cron scheduler c: "none", "running" or "stopped"
    sigChan,    \* a signal is buffered in sigChan (capacity 1)
    jobs,       \* the runBackup calls of the process, in the order started
    exitCode    \* <<>> while the process runs, then <<its exit code>>

procVars == <<main, cron, sigChan, jobs, exitCode>>

vars == <<cfg, dir, localZip, remote, pc, idx, lastErr, backupFile, uploadFile,
          deferred, warnings, result, ops, main, cron, sigChan, jobs, exitCode>>

-----------------------------------------------------------------------------
(* Bounds of the model *)

MaxRemotes == 2
MaxKeep == 2
MaxTime == 2
MaxCalls == 2
MaxRuns == 2

Now == MaxTime
Times == 1..MaxTime

-----------------------------------------------------------------------------
(* Names and patterns *)

TarSuffix == ".tar"
ZipSuffix == ".zip"
GoodPattern == <<"*", TarSuffix>>
MalformedPattern == <<"[", TarSuffix>>
NoFile == <<>>

Range(s) == {s[k] : k \in 1..Len(s)}

\* path.Match / filepath.Match: the pattern is malformed
ErrBadPattern(pattern) == "[" \in Range(pattern)

RECURSIVE GlobMatch(_, _)
GlobMatch(pattern, name) ==
    IF pattern = <<>> THEN name = <<>>
    ELSE IF Head(pattern) = "*"
         THEN GlobMatch(Tail(pattern), name)
              \/ (name # <<>> /\ GlobMatch(pattern, Tail(name)))
    ELSE IF Head(pattern) = "?"
         THEN name # <<>> /\ GlobMatch(Tail(pattern), Tail(name))
    ELSE name # <<>> /\ Head(name) = Head(pattern)
         /\ GlobMatch(Tail(pattern), Tail(name))

\* path.Match(pattern, name): (matched, err)
pathMatch(pattern, name) ==
    [matched |-> ~ErrBadPattern(pattern) /\ GlobMatch(pattern, name),
     err     |-> ErrBadPattern(pattern)]

\* a variant that gives the archive the name of its source
zipNameOfSource(baseName) == baseName

\* zipName := baseName + ".zip"
zipName(baseName) == baseName \o <<ZipSuffix>>

-----------------------------------------------------------------------------
(* The log of external calls *)

Call(op, dest, path, out) ==
    [op |-> op, dest |-> dest, path |-> path, out |-> out,
     success |-> FALSE, named |-> {}]

Event(success, named, out) ==
    [op |-> "notify", dest |-> 0, path |-> NoFile, out |-> out,
     success |-> success, named |-> named]

OpsOf(kind) == {k \in 1..Len(ops) : ops[k].op = kind}
Failed(kind) == {k \in OpsOf(kind) : ops[k].out # "ok"}

\* sendDiscordNotification: nothing is posted without a webhook URL; the POST
\* may succeed, return a status >= 400, or fail at transport level, and none
\* of these is reported to the caller.
sendDiscordNotification(c, success, named) ==
    IF ~c.DiscordWebhookURL
    THEN {Event(success, named, "disabled")}
    ELSE {Event(success, named, out) : out \in {"sent", "status", "transport"}}


-----------------------------------------------------------------------------
(* findLatestBackup *)

\* filepath.Glob: the files of the directory whose name matches the pattern
GlobFiles(c, d) == {f \in d : pathMatch(c.BackupPattern, f.name).matched}

\* a variant whose sort is oldest first
Oldest(files) == {f \in files : \A g \in files : f.mt <= g.mt}

\* files[0] after sort.Slice by modTime, newest first: a statable match with
\* the latest modTime (sort.Slice is not stable: any one of them on a tie)
Latest(files) == {f \in files : \A g \in files : g.mt <= f.mt}

\* a variant that also rejects a backup whose age equals the limit
TooOldAtLimit(c, f) == Now - f.mt >= c.MaxAge

\* age > cfg.MaxAge
TooOld(c, f) == Now - f.mt > c.MaxAge

\* the possible return values (path, err) of findLatestBackup
findLatestBackup(c, d) ==
    IF ErrBadPattern(c.BackupPattern)
    THEN {[path |-> NoFile, err |-> "glob"]}
    ELSE IF GlobFiles(c, d) = {}
    THEN {[path |-> NoFile, err |-> "no backup files"]}
    ELSE LET files == {f \in GlobFiles(c, d) : f.statable} IN
         IF files = {}
         THEN {[path |-> NoFile, err |-> "no accessible"]}
         ELSE {IF TooOld(c, latest)
               THEN [path |-> NoFile, err |-> "too old"]
               ELSE [path |-> latest.name, err |-> "ok"] : latest \in Latest(files)}

-----------------------------------------------------------------------------
(* uploadToRemotes *)

\* a variant that reports an error only when every copy failed
uploadFailsOnlyIfAll(anyFailed) ==
    anyFailed /\ Cardinality(Failed("copy")) = cfg.RcloneRemotes

\* a variant that loses the error of the loop
uploadNeverFails(anyFailed) == FALSE

\* a variant whose lastErr is overwritten by the outcome of each copy
uploadFailsOnlyIfLast(anyFailed) == anyFailed /\ ops[Len(ops)].out # "ok"

\* if lastErr != nil { return error }
uploadToRemotesFails(anyFailed) == anyFailed

\* a variant that leaves the loop at the first failed copy
BreakOnFailure(k, failed) == IF failed THEN cfg.RcloneRemotes + 1 ELSE k + 1

\* the remote index the loop visits after index k (continue on failure)
NextRemote(k, failed) == k + 1

\* the object rclone copyto leaves at the destination
Uploaded(name, mt) == [Path |-> name, ModTime |-> mt, IsDir |-> FALSE]

\* dest := remote/backupName: an object of that path is replaced
Store(objects, obj) == {o \in objects : o.Path # obj.Path} \cup {obj}

-----------------------------------------------------------------------------
(* pruneOldBackups *)

\* a variant of the filter that knows the plain pattern only
BackupsPlainOnly(c, files) ==
    {f \in files : ~f.IsDir /\ pathMatch(c.BackupPattern, f.Path).matched}

\* the filter loop: non-directories whose base name matches the pattern or
\* the pattern + ".zip"
Backups(c, files) ==
    {f \in files : /\ ~f.IsDir
                   /\ \/ pathMatch(c.BackupPattern, f.Path).matched
                      \/ pathMatch(zipName(c.BackupPattern), f.Path).matched}

\* the filter loop returns "invalid backup pattern" at the first non-directory
InvalidPattern(c, files) ==
    ErrBadPattern(c.BackupPattern) /\ \E f \in files : ~f.IsDir

\* if len(backups) <= cfg.NumBackupsToKeep { return nil }
NeedsPruning(n, keep) == n > keep

\* sort.Slice(backups, ModTime descending): every order sort.Slice may leave
RECURSIVE SortNewestFirst(_)
SortNewestFirst(S) ==
    IF S = {} THEN {<<>>}
    ELSE UNION {{<<f>> \o rest : rest \in SortNewestFirst(S \ {f})} :
                f \in {g \in S : \A h \in S : h.ModTime <= g.ModTime}}

\* a variant that slices from the wrong end and deletes the newest
DeleteNewest(sorted, keep) == SubSeq(sorted, 1, Len(sorted) - keep)

\* a variant that deletes only the single oldest backup of each call
DeleteOnlyOldest(sorted, keep) == SubSeq(sorted, Len(sorted), Len(sorted))

\* toDelete := backups[cfg.NumBackupsToKeep:]
ToDelete(sorted, keep) == SubSeq(sorted, keep + 1, Len(sorted))

\* a variant whose deletion loop ends at the first failed deletefile
DeleteUntilFailure(d, toDelete, failing) ==
    LET stop == IF \E k \in 1..Len(toDelete) : toDelete[k] \in failing
                THEN CHOOSE k \in 1..Len(toDelete) :
                        /\ toDelete[k] \in failing
                        /\ \A j \in 1..(k - 1) : toDelete[j] \notin failing
                ELSE Len(toDelete)
    IN  [k \in 1..stop |->
            Call("deletefile", d, toDelete[k].Path,
                 IF toDelete[k] \in failing THEN "fail" ELSE "ok")]

\* the deletefile calls of the deletion loop; a failure is logged and skipped
DeleteCalls(d, toDelete, failing) ==
    [k \in 1..Len(toDelete) |->
        Call("deletefile", d, toDelete[k].Path,
             IF toDelete[k] \in failing THEN "fail" ELSE "ok")]

\* the possible outcomes of pruneOldBackups(cfg, remote d) on a remote holding
\* `files`: the error returned, the rclone calls made, the objects left
pruneOldBackups(c, d, files) ==
    IF c.NumBackupsToKeep <= 0
    THEN {[err |-> "ok", calls |-> <<>>, files |-> files]}
    ELSE
      {[err |-> "lsjson", calls |-> <<Call("lsjson", d, NoFile, "fail")>>,
        files |-> files],
       [err |-> "parse", calls |-> <<Call("lsjson", d, NoFile, "garbled")>>,
        files |-> files]}
      \cup
      (LET listed == <<Call("lsjson", d, NoFile, "ok")>>
           backups == Backups(c, files)
       IN  IF InvalidPattern(c, files)
           THEN {[err |-> "pattern", calls |-> listed, files |-> files]}
           ELSE IF ~NeedsPruning(Cardinality(backups), c.NumBackupsToKeep)
           THEN {[err |-> "ok", calls |-> listed, files |-> files]}
           ELSE {[err   |-> "ok",
                  calls |-> listed \o
                            DeleteCalls(d, ToDelete(sorted, c.NumBackupsToKeep),
                                        failing),
                  files |-> files \
                            (Range(ToDelete(sorted, c.NumBackupsToKeep)) \ failing)] :
                 sorted \in SortNewestFirst(backups),
                 failing \in SUBSET Backups(c, files)}
                \* failing: the objects whose deletefile call would fail
      )


-----------------------------------------------------------------------------
(* Configurations and initial states *)

Remotes(c) == 1..c.RcloneRemotes

\* parseFlags: at least one remote is required; NUM_OF_BACKUPS_TO_KEEP is any
\* integer; ZipPassword and DiscordWebhookURL are modelled as set / not set
Configs ==
    [RcloneRemotes     : 1..MaxRemotes,
     ZipPassword       : BOOLEAN,
     DiscordWebhookURL : BOOLEAN,
     NumBackupsToKeep  : (-1)..MaxKeep,
     BackupPattern     : {GoodPattern, MalformedPattern},
     MaxAge            : {0, 1}]

\* the files the backup directory may hold: a fresh backup, an older one, one
\* that cannot be stat'ed
FreshBackup == [name |-> <<"a", TarSuffix>>, mt |-> Now, statable |-> TRUE]
OlderBackup == [name |-> <<"b", TarSuffix>>, mt |-> Now - 1, statable |-> TRUE]
Unstatable == [name |-> <<"c", TarSuffix>>, mt |-> Now, statable |-> FALSE]
RunDirs == {{}, {FreshBackup, OlderBackup}, {OlderBackup, Unstatable}, {Unstatable}}

\* what a remote may hold before a run: nothing, or two older backups (one
\* plain, one zipped), an unrelated file and a directory
OlderListing ==
    {Uploaded(<<"b", TarSuffix>>, 1),
     Uploaded(<<"c", TarSuffix, ZipSuffix>>, 1),
     Uploaded(<<"notes">>, 1),
     [Path |-> <<"d", TarSuffix>>, ModTime |-> 1, IsDir |-> TRUE]}
RunListings == {{}, OlderListing}

\* runBackup, pruneOldBackups or findLatestBackup taken on its own: no process
\* around it
NoProcess ==
    /\ main = "none"
    /\ cron = "none"
    /\ sigChan = FALSE
    /\ jobs = <<>>
    /\ exitCode = <<>>

Init ==
    /\ cfg \in Configs
    /\ dir \in RunDirs
    /\ localZip = "absent"
    /\ remote \in [Remotes(cfg) -> RunListings]
    /\ pc = "createGitLabBackup"
    /\ idx = 1
    /\ lastErr = FALSE
    /\ backupFile = NoFile
    /\ uploadFile = NoFile
    /\ deferred = FALSE
    /\ warnings = <<>>
    /\ result = "none"
    /\ ops = <<>>
    /\ NoProcess

-----------------------------------------------------------------------------
(* runBackup *)

\* a variant without the return after a failed createGitLabBackup
ContinueAfterCommandFailure(done) ==
    /\ \E e \in sendDiscordNotification(cfg, FALSE, {}) : ops' = Append(done, e)
    /\ result' = "error"
    /\ pc' = IF pc = "createGitLabBackup" THEN "findLatestBackup"
             ELSE IF deferred THEN "deferred" ELSE "returned"

\* a variant that returns the error without notifying
ReturnWithoutNotification(done) ==
    /\ ops' = done
    /\ result' = "error"
    /\ pc' = IF deferred THEN "deferred" ELSE "returned"

\* a variant whose cleanup is not deferred: an error return skips it
ReturnWithoutCleanup(done) ==
    /\ \E e \in sendDiscordNotification(cfg, FALSE, {}) : ops' = Append(done, e)
    /\ result' = "error"
    /\ pc' = "returned"

\* sendDiscordNotification(cfg, false, err.Error(), ...); return err
\* `done` is the call log up to the failure; the error text names no remote
ReturnError(done) ==
    /\ \E e \in sendDiscordNotification(cfg, FALSE, {}) : ops' = Append(done, e)
    /\ result' = "error"
    /\ pc' = IF deferred THEN "deferred" ELSE "returned"

\* Step 1: createGitLabBackup: the Docker client, exec create/attach/read/
\* inspect may fail ("docker"), or the command exits non-zero ("exit")
CreateGitLabBackup ==
    /\ pc = "createGitLabBackup"
    /\ \E out \in {"ok", "docker", "exit"} :
          LET done == Append(ops, Call("exec", 0, NoFile, out)) IN
          IF out = "ok"
          THEN /\ ops' = done
               /\ pc' = "findLatestBackup"
               /\ UNCHANGED result
          ELSE ReturnError(done)
    /\ UNCHANGED procVars
    /\ UNCHANGED <<cfg, dir, localZip, remote, idx, lastErr, backupFile,
                   uploadFile, deferred, warnings>>

\* Step 2: findLatestBackup, then uploadFile = backupFile
FindLatestBackup ==
    /\ pc = "findLatestBackup"
    /\ \E r \in findLatestBackup(cfg, dir) :
          LET done == Append(ops, Call("find", 0, r.path, r.err)) IN
          /\ backupFile' = r.path
          /\ IF r.err = "ok"
             THEN /\ ops' = done
                  /\ uploadFile' = r.path
                  /\ pc' = IF cfg.ZipPassword THEN "createPasswordZip"
                                              ELSE "uploadToRemotes"
                  /\ UNCHANGED result
             ELSE /\ ReturnError(done)
                  /\ UNCHANGED uploadFile
    /\ UNCHANGED procVars
    /\ UNCHANGED <<cfg, dir, localZip, remote, idx, lastErr, deferred, warnings>>

\* what createPasswordZip may leave at zipPath for each of its outcomes:
\* os.Create failed; the source could not be opened, the encrypted entry not
\* created or the content not copied (the created file stays); os.Stat of the
\* finished file failed; success. The errors of the deferred w.Close() and
\* fzip.Close() are discarded and the size is only logged, so a file whose
\* buffered content was never flushed (size 0) is a success as well.
ZipLeft(out) ==
    CASE out = "create" -> {localZip}
      [] out \in {"open", "encrypt", "copy"} -> {"partial"}
      [] out = "stat" -> {"absent"}
      [] out = "ok" -> {"complete", "empty"}

\* a variant that ignores the failed os.Stat of the finished zip
zipFailedUnlessStat(out) == out \notin {"ok", "stat"}

\* uploadFile, err = createPasswordZip(...); if err != nil
zipFailed(out) == out # "ok"

\* Step 2.5: createPasswordZip and, on success, the defer of os.Remove
CreatePasswordZip ==
    /\ pc = "createPasswordZip"
    /\ \E out \in {"ok", "create", "open", "encrypt", "copy", "stat"} :
          LET done == Append(ops, Call("zip", 0, zipName(backupFile), out)) IN
          /\ localZip' \in ZipLeft(out)
          /\ IF ~zipFailed(out)
             THEN /\ ops' = done
                  /\ uploadFile' = zipName(backupFile)
                  /\ deferred' = TRUE
                  /\ pc' = "uploadToRemotes"
                  /\ UNCHANGED result
             ELSE /\ ReturnError(done)
                  /\ uploadFile' = NoFile
                  /\ UNCHANGED deferred
    /\ UNCHANGED procVars
    /\ UNCHANGED <<cfg, dir, remote, idx, lastErr, backupFile, warnings>>

\* modification time of the file being uploaded: the zip was just written
UploadModTime ==
    IF deferred THEN Now
    ELSE (CHOOSE f \in dir : f.name = uploadFile).mt

\* Step 3, one iteration of the loop of uploadToRemotes: rclone copyto
UploadToRemote ==
    /\ pc = "uploadToRemotes"
    /\ idx \in Remotes(cfg)
    /\ \E out \in {"ok", "fail"} :
          /\ ops' = Append(ops, Call("copy", idx, uploadFile, out))
          /\ lastErr' = (lastErr \/ out = "fail")
          /\ remote' = IF out = "ok"
                       THEN [remote EXCEPT ![idx] =
                                Store(@, Uploaded(uploadFile, UploadModTime))]
                       ELSE remote
          /\ idx' = NextRemote(idx, out = "fail")
    /\ UNCHANGED procVars
    /\ UNCHANGED <<cfg, dir, localZip, pc, backupFile, uploadFile, deferred,
                   warnings, result>>

\* Step 3, after the loop: uploadToRemotes returns, runBackup checks its error
UploadReturn ==
    /\ pc = "uploadToRemotes"
    /\ idx \notin Remotes(cfg)
    /\ IF uploadToRemotesFails(lastErr)
       THEN /\ ReturnError(ops)
            /\ UNCHANGED idx
       ELSE /\ pc' = "pruneOldBackups"
            /\ idx' = 1
            /\ UNCHANGED <<ops, result>>
    /\ UNCHANGED procVars
    /\ UNCHANGED <<cfg, dir, localZip, remote, lastErr, backupFile, uploadFile,
                   deferred, warnings>>

\* a variant that gives up pruning at the first remote that fails
StopPruningOnFailure(k, err) ==
    IF err # "ok" THEN cfg.RcloneRemotes + 1 ELSE k + 1

\* the remote index the pruning loop visits after index k: an error is
\* appended to warnings and the loop goes on
NextPrune(k, err) == k + 1

\* Step 4, one iteration: pruneOldBackups(cfg, remote); an error is a warning
PruneRemote ==
    /\ pc = "pruneOldBackups"
    /\ idx \in Remotes(cfg)
    /\ \E r \in pruneOldBackups(cfg, idx, remote[idx]) :
          /\ ops' = ops \o <<Call("prune", idx, NoFile, r.err)>> \o r.calls
          /\ remote' = [remote EXCEPT ![idx] = r.files]
          /\ warnings' = IF r.err = "ok" THEN warnings ELSE Append(warnings, idx)
          /\ idx' = NextPrune(idx, r.err)
    /\ UNCHANGED procVars
    /\ UNCHANGED <<cfg, dir, localZip, pc, lastErr, backupFile, uploadFile,
                   deferred, result>>

\* a variant in which a prune warning makes the run fail
FailOnWarnings(warned) == ~warned

\* the flag of the final notification and the value returned after pruning
FinalSuccess(warned) == TRUE

\* a variant in which a failed delivery makes the run fail
EscalateDeliveryFailure(e) == e.out \in {"status", "transport"}

\* sendDiscordNotification has no return value: what became of the POST does
\* not reach runBackup
Escalated(e) == FALSE

\* after the loop: sendDiscordNotification(cfg, true, warnings...); return nil
Report ==
    /\ pc = "pruneOldBackups"
    /\ idx \notin Remotes(cfg)
    /\ \E e \in sendDiscordNotification(cfg, FinalSuccess(warnings # <<>>),
                                        Range(warnings)) :
          /\ ops' = Append(ops, e)
          /\ result' = IF FinalSuccess(warnings # <<>>) /\ ~Escalated(e)
                       THEN "nil" ELSE "error"
    /\ pc' = IF deferred THEN "deferred" ELSE "returned"
    /\ UNCHANGED procVars
    /\ UNCHANGED <<cfg, dir, localZip, remote, idx, lastErr, backupFile,
                   uploadFile, deferred, warnings>>

\* a variant whose cleanup removes the file the zip was made from
RemoveSource(upload, backup) == backup

\* the path the deferred function removes: os.Remove(uploadFile)
RemoveTarget(upload, backup) == upload

\* the backup directory after a successful os.Remove(path)
Removed(d, path) == {f \in d : f.name # path}

\* the deferred function: os.Remove(uploadFile); a failure is only logged
RemoveZip ==
    /\ pc = "deferred"
    /\ \E out \in {"ok", "fail"} :
          LET path == RemoveTarget(uploadFile, backupFile) IN
          /\ ops' = Append(ops, Call("remove", 0, path, out))
          /\ localZip' = IF out = "ok" /\ path = zipName(backupFile)
                         THEN "absent" ELSE localZip
          /\ dir' = IF out = "ok" THEN Removed(dir, path) ELSE dir
    /\ pc' = "returned"
    /\ UNCHANGED procVars
    /\ UNCHANGED <<cfg, remote, idx, lastErr, backupFile, uploadFile,
                   deferred, warnings, result>>

Next ==
    \/ CreateGitLabBackup
    \/ FindLatestBackup
    \/ CreatePasswordZip
    \/ UploadToRemote
    \/ UploadReturn
    \/ PruneRemote
    \/ Report
    \/ RemoveZip

Spec == Init /\ [][Next]_vars


-----------------------------------------------------------------------------
(* Vocabulary of the properties of one run *)

N == cfg.RcloneRemotes
Returned == pc = "returned"

OpSeq(kind) == SelectSeq(ops, LAMBDA o : o.op = kind)
Copies == OpSeq("copy")
NotifyOps == OpsOf("notify")
RetentionOps == OpsOf("lsjson") \cup OpsOf("deletefile")
FailedRemotes == {ops[k].dest : k \in Failed("copy")}

CommandOk == \E k \in OpsOf("exec") : ops[k].out = "ok"
DiscoveryOk == \E k \in OpsOf("find") : ops[k].out = "ok"
EncryptionOk == \E k \in OpsOf("zip") : ops[k].out = "ok"

\* the run got as far as uploadToRemotes
ReachedReplication ==
    CommandOk /\ DiscoveryOk /\ (cfg.ZipPassword => EncryptionOk)

\* the loop of uploadToRemotes has visited every remote
ReplicationFinished ==
    ReachedReplication /\ (pc = "uploadToRemotes" => idx \notin Remotes(cfg))

C2_TotalFailureIsFatal ==
    (ReachedReplication /\ Cardinality(Failed("copy")) = N)
    => /\ RetentionOps = {}
       /\ OpsOf("prune") = {}
       /\ result # "nil"
       /\ Returned => /\ result = "error"
                      /\ \E k \in NotifyOps : ~ops[k].success

C2_Witness ==
    /\ Returned
    /\ N >= 2
    /\ Cardinality(Failed("copy")) = N
    /\ \E k \in NotifyOps : ~ops[k].success

\* C3: in a run that reaches replication, the copy is invoked exactly once
\* per configured destination, in configured order, whatever copies fail: the
\* j-th copy call is for destination j, and once the stage is over there are
\* exactly N of them.
C3_EveryDestinationAttemptedOnce ==
    /\ \A j \in 1..Len(Copies) : Copies[j].dest = j
    /\ Len(Copies) <= N
    /\ ~ReachedReplication => Copies = <<>>
    /\ ReplicationFinished => Len(Copies) = N

C3_Witness ==
    /\ Returned
    /\ N >= 2
    /\ Len(Copies) = N
    /\ Copies[1].out = "fail"
    /\ Copies[N].out = "ok"

Stage(o) ==
    CASE o.op = "exec" -> 1
      [] o.op = "find" -> 2
      [] o.op = "zip" -> 3
      [] o.op = "copy" -> 4
      [] o.op \in {"prune", "lsjson", "deletefile"} -> 5
      [] OTHER -> 0

\* C5: once a fatal stage has failed, no operation of a later stage is
\* invoked: nothing of discovery, encryption, copy or retention follows a
\* failed command, nothing of encryption, copy or retention a failed
\* discovery, no copy or retention a failed encryption, and no retention call
\* is made in a run in which uploadToRemotes failed.
C5_FatalFailureAbortsLaterStages ==
    /\ \A k \in 1..Len(ops) :
          (ops[k].out # "ok" /\ Stage(ops[k]) \in 1..3)
          => \A m \in (k + 1)..Len(ops) : Stage(ops[m]) = 0
    /\ Failed("copy") # {} => OpsOf("prune") \cup RetentionOps = {}

C5_Witness ==
    /\ Returned
    /\ Failed("find") # {}
    /\ \E k \in NotifyOps : ~ops[k].success
    /\ Len(ops) = 3

\* C6: a run that has terminated has invoked the notifier exactly once, no
\* run invokes it twice, and the success flag of that one event equals the
\* result of the run (true exactly when runBackup returns nil).
C6_ExactlyOneNotification ==
    /\ Cardinality(NotifyOps) <= 1
    /\ result = "none" <=> NotifyOps = {}
    /\ Returned => /\ Cardinality(NotifyOps) = 1
                   /\ \A k \in NotifyOps : ops[k].success <=> result = "nil"

C6_Witness ==
    /\ Returned
    /\ result = "error"
    /\ Failed("copy") # {}
    /\ Cardinality(NotifyOps) = 1
    /\ \E k \in NotifyOps : ops[k].out = "transport"

\* C7: retention failures never make a run fail: a run whose command,
\* discovery, encryption and every copy succeeded returns nil and sends a
\* success event, whatever listings failed or were unparsable and whatever
\* deletions failed; the event names the remotes whose pruning failed.
C7_RetentionNeverFatal ==
    (/\ Returned
     /\ ReachedReplication
     /\ Failed("copy") = {})
    => /\ result = "nil"
       /\ \E k \in NotifyOps : ops[k].success /\ ops[k].named = Range(warnings)
       /\ \A k \in Failed("lsjson") : ops[k].dest \in Range(warnings)

C7_Witness ==
    /\ Returned
    /\ result = "nil"
    /\ Failed("lsjson") # {}
    /\ Failed("deletefile") # {}
    /\ warnings # <<>>

\* the position of the deferred removal in the log, and the copies before it
RemoveOps == OpsOf("remove")
CopiesBefore(r) == {k \in OpsOf("copy") : k < r}

-----------------------------------------------------------------------------
(* pruneOldBackups on its own: one remote, pruned again and again, with     *)
(* uploads arriving in between                                              *)

RetentionConfigs ==
    [RcloneRemotes     : {1},
     ZipPassword       : {FALSE},
     DiscordWebhookURL : {FALSE},
     NumBackupsToKeep  : (-1)..MaxKeep,
     BackupPattern     : {GoodPattern, MalformedPattern},
     MaxAge            : {0}]

\* the listings of the remote: any of three backups (two plain, one zipped)
\* with any modification times, with or without an unrelated file and a
\* directory whose name matches the pattern
BackupNames == {<<"a", TarSuffix>>, <<"b", TarSuffix>>, <<"c", TarSuffix, ZipSuffix>>}
Bystanders ==
    {Uploaded(<<"notes">>, 1), [Path |-> <<"d", TarSuffix>>, ModTime |-> 1, IsDir |-> TRUE]}
RetentionListings ==
    {{Uploaded(n, t[n]) : n \in S} \cup B :
        S \in SUBSET BackupNames, t \in [BackupNames -> Times], B \in SUBSET Bystanders}

RetentionInit ==
    /\ cfg \in RetentionConfigs
    /\ remote \in [{1} -> RetentionListings]
    /\ pc = "retention"
    /\ idx = 1
    /\ dir = {}
    /\ localZip = "absent"
    /\ lastErr = FALSE
    /\ backupFile = NoFile
    /\ uploadFile = NoFile
    /\ deferred = FALSE
    /\ warnings = <<>>
    /\ result = "none"
    /\ ops = <<>>
    /\ NoProcess

\* one call of pruneOldBackups(cfg, remote)
RetentionPrune ==
    /\ pc = "retention"
    /\ idx <= MaxCalls
    /\ \E r \in pruneOldBackups(cfg, 1, remote[1]) :
          /\ ops' = ops \o <<Call("prune", 1, NoFile, r.err)>> \o r.calls
          /\ remote' = [remote EXCEPT ![1] = r.files]
    /\ idx' = idx + 1
    /\ UNCHANGED procVars
    /\ UNCHANGED <<cfg, dir, localZip, pc, lastErr, backupFile, uploadFile,
                   deferred, warnings, result>>

\* a new backup is copied to the remote (a successful rclone copyto)
RetentionUpload ==
    /\ pc = "retention"
    /\ idx <= MaxCalls
    /\ \E n \in BackupNames :
          /\ ops' = Append(ops, Call("copy", 1, n, "ok"))
          /\ remote' = [remote EXCEPT ![1] = Store(@, Uploaded(n, Now))]
    /\ idx' = idx + 1
    /\ UNCHANGED procVars
    /\ UNCHANGED <<cfg, dir, localZip, pc, lastErr, backupFile, uploadFile,
                   deferred, warnings, result>>

RetentionNext == RetentionPrune \/ RetentionUpload

RetentionSpec == RetentionInit /\ [][RetentionNext]_vars

-----------------------------------------------------------------------------
(* Vocabulary of the properties of pruneOldBackups *)

Max(a, b) == IF a >= b THEN a ELSE b

\* the calls this step adds to the log
NewOps == SubSeq(ops', Len(ops) + 1, Len(ops'))
IsPruneStep == Len(ops') > Len(ops) /\ ops'[Len(ops) + 1].op = "prune"
NewDeleteCalls == SelectSeq(NewOps, LAMBDA o : o.op = "deletefile")
NewCallsAllOk == \A k \in 1..Len(NewOps) : NewOps[k].out = "ok"

\* C9: for one destination holding M objects that match the backup pattern
\* (plain or zipped, directories aside) and keep count K, no deletion call is
\* made when K <= 0 or M <= K; otherwise a call whose listing and deletions
\* all succeed deletes exactly max(0, M-K) objects, each with a modification
\* time no later than that of every retained matching object, and touches
\* nothing else.
C9_DeletesOldestBeyondKeepCount ==
    [][IsPruneStep =>
        LET before  == remote[1]
            matches == Backups(cfg, before)
            M       == Cardinality(matches)
            K       == cfg.NumBackupsToKeep
            deleted == before \ remote'[1]
        IN  /\ remote'[1] \subseteq before
            /\ (K <= 0 \/ M <= K) => (NewDeleteCalls = <<>> /\ deleted = {})
            /\ (K > 0 /\ NewCallsAllOk) =>
                 /\ Len(NewDeleteCalls) = Max(0, M - K)
                 /\ Cardinality(deleted) = Max(0, M - K)
                 /\ deleted \subseteq matches
                 /\ {NewDeleteCalls[k].path : k \in 1..Len(NewDeleteCalls)}
                       = {f.Path : f \in deleted}
                 /\ \A x \in deleted : \A y \in matches \ deleted :
                       x.ModTime <= y.ModTime
      ]_vars

\* a call that listed successfully, deleted at least two objects, all with
\* success, and left a newer backup in place
C9_Witness ==
    /\ pc = "retention"
    /\ cfg.NumBackupsToKeep = 1
    /\ Len(ops) = 4
    /\ ops[1].op = "prune" /\ ops[1].out = "ok"
    /\ ops[2].op = "lsjson" /\ ops[2].out = "ok"
    /\ ops[3].op = "deletefile" /\ ops[3].out = "ok"
    /\ ops[4].op = "deletefile" /\ ops[4].out = "ok"
    /\ \E f \in remote[1] : f.Path \in BackupNames /\ f.ModTime = MaxTime

\* the calls of the pruneOldBackups call that starts at position m of the log
CallEnd(m) ==
    IF \E k \in (m + 1)..Len(ops) : ops[k].op \in {"prune", "copy"}
    THEN (CHOOSE k \in (m + 1)..Len(ops) :
              /\ ops[k].op \in {"prune", "copy"}
              /\ \A j \in (m + 1)..(k - 1) : ops[j].op \notin {"prune", "copy"}) - 1
    ELSE Len(ops)
DeletesOf(m) == {k \in (m + 1)..CallEnd(m) : ops[k].op = "deletefile"}
CleanCall(m) ==
    /\ ops[m].out = "ok"
    /\ \A k \in (m + 1)..CallEnd(m) : ops[k].out = "ok"

\* two calls of pruneOldBackups in a row, nothing uploaded in between
BackToBack(m1, m2) ==
    /\ m1 \in OpsOf("prune")
    /\ m2 \in OpsOf("prune")
    /\ m2 = CallEnd(m1) + 1

-----------------------------------------------------------------------------
(* findLatestBackup on its own: one call on any small backup directory      *)

LocatorConfigs ==
    [RcloneRemotes     : {1},
     ZipPassword       : {FALSE},
     DiscordWebhookURL : {FALSE},
     NumBackupsToKeep  : {0},
     BackupPattern     : {GoodPattern, MalformedPattern},
     MaxAge            : {0, 1}]

\* the directories: each of three files with a matching name is absent, cannot
\* be stat'ed, or has any modification time; a file with another name may be
\* there too, newer than all of them
MatchingNames == {<<"a", TarSuffix>>, <<"b", TarSuffix>>, <<"c", TarSuffix>>}
OtherFile == [name |-> <<"notes">>, mt |-> Now, statable |-> TRUE]
LocatorDirs ==
    {{[name |-> n, mt |-> (IF t[n] = 0 THEN Now ELSE t[n]), statable |-> t[n] # 0] :
         n \in S} \cup B :
        S \in SUBSET MatchingNames,
        t \in [MatchingNames -> {0} \cup Times],
        B \in SUBSET {OtherFile}}

LocatorInit ==
    /\ cfg \in LocatorConfigs
    /\ dir \in LocatorDirs
    /\ remote = [d \in {1} |-> {}]
    /\ pc = "locate"
    /\ idx = 1
    /\ localZip = "absent"
    /\ lastErr = FALSE
    /\ backupFile = NoFile
    /\ uploadFile = NoFile
    /\ deferred = FALSE
    /\ warnings = <<>>
    /\ result = "none"
    /\ ops = <<>>
    /\ NoProcess

\* backupFile, err = findLatestBackup(cfg)
Locate ==
    /\ pc = "locate"
    /\ \E r \in findLatestBackup(cfg, dir) :
          /\ backupFile' = r.path
          /\ ops' = Append(ops, Call("find", 0, r.path, r.err))
          /\ result' = IF r.err = "ok" THEN "nil" ELSE "error"
    /\ pc' = "located"
    /\ UNCHANGED procVars
    /\ UNCHANGED <<cfg, dir, localZip, remote, idx, lastErr, uploadFile,
                   deferred, warnings>>

LocatorNext == Locate

LocatorSpec == LocatorInit /\ [][LocatorNext]_vars

-----------------------------------------------------------------------------
(* Vocabulary of the properties of findLatestBackup *)

Located == pc = "located"
LocateErr == ops[Len(ops)].out

\* the files of the directory that match the pattern, and those of them that
\* can be stat'ed
Candidates == {f \in dir : GlobMatch(cfg.BackupPattern, f.name)
                           /\ ~ErrBadPattern(cfg.BackupPattern)}
Statable == {f \in Candidates : f.statable}
NewestTime == CHOOSE t \in {f.mt : f \in Statable} : \A f \in Statable : f.mt <= t

\* C16: for every set of files in the directory the locator selects a
\* statable pattern-matching file whose modification time is the maximum among
\* the statable pattern-matching files, never a non-matching file, and it
\* fails when no file matches or none is statable.
C16_SelectsNewestStatableMatch ==
    Located =>
      /\ result = "nil" =>
            \E f \in Statable : /\ backupFile = f.name
                                /\ \A g \in Statable : g.mt <= f.mt
      /\ Candidates = {} => (result = "error" /\ LocateErr \in {"no backup files", "glob"})
      /\ (Candidates # {} /\ Statable = {}) =>
            (result = "error" /\ LocateErr = "no accessible")
      /\ result = "error" => backupFile = NoFile

\* an older match and a newer non-matching file are passed over
C16_Witness ==
    /\ Located
    /\ result = "nil"
    /\ OtherFile \in dir
    /\ Cardinality(Statable) >= 2
    /\ \E f \in Statable : f.mt < NewestTime
    /\ \E f \in Candidates : ~f.statable

\* C17: the locator fails whenever the age of the newest (statable) matching
\* file is strictly greater than maxAge, even if it is the only candidate, and
\* succeeds with such a newest file whenever that age is at most maxAge; the
\* older matching files never change the outcome.
C17_AgeOfNewestDecides ==
    (Located /\ Statable # {}) =>
      /\ Now - NewestTime > cfg.MaxAge =>
            (result = "error" /\ LocateErr = "too old")
      /\ Now - NewestTime <= cfg.MaxAge =>
            /\ result = "nil"
            /\ \E f \in Statable : f.name = backupFile /\ f.mt = NewestTime

\* the newest file is exactly at the limit and accepted, an older one is
\* beyond it
C17_Witness ==
    /\ Located
    /\ result = "nil"
    /\ Now - NewestTime = cfg.MaxAge
    /\ \E f \in Statable : Now - f.mt > cfg.MaxAge

-----------------------------------------------------------------------------
(* The process: main, runWithScheduler and the runs they start *)

\* parseFlags: CRON_SCHEDULE is empty, a valid expression or an invalid one;
\* -now sets RunOnce
ProcessConfigs ==
    [RcloneRemotes     : {1},
     ZipPassword       : BOOLEAN,
     DiscordWebhookURL : {TRUE},
     NumBackupsToKeep  : {0},
     BackupPattern     : {GoodPattern},
     MaxAge            : {1},
     CronSchedule      : {"", "valid", "invalid"},
     RunOnce           : BOOLEAN]

\* if cfg.CronSchedule != "" { runWithScheduler(cfg); return }
Dispatch(c) == IF c.CronSchedule # "" THEN "runWithScheduler" ELSE "runBackup"

\* a variant that accepts every schedule
ParseNeverFails(c) == FALSE

\* c.AddFunc(cfg.CronSchedule, ...) returns an error
ParseFails(c) == c.CronSchedule = "invalid"

\* a variant whose callback stops the scheduler when the run failed
StopOnFailure(s, res) == IF res = "error" THEN "stopped" ELSE s

\* the callback given to AddFunc: a failed run is logged, nothing else
SchedulerAfterRun(s, res) == s

\* a variant in which the scheduler keeps running after the signal
StopIgnored(s) == s

\* c.Stop()
AfterStop(s) == "stopped"

\* a variant that does not wait for the runs in flight
NoWait(js) == TRUE

\* a variant whose context is never done
NeverDone(js) == FALSE

\* <-ctx.Done(): every job the scheduler started has returned
Drained(js) == \A j \in 1..Len(js) : js[j].pc = "done"

\* a variant that exits 0 whatever runBackup returned
ExitZero(res) == 0

\* log.Fatalf("Backup failed") exits 1; returning from main exits 0
ExitCode(res) == IF res = "error" THEN 1 ELSE 0

InFlight(js) == {j \in 1..Len(js) : js[j].pc # "done"}

\* the positions of a run that has sent its notification
Notified == {"deferred", "returned", "done"}

\* a call of runBackup that has just started; notified counts its calls of
\* sendDiscordNotification, sig records that a signal arrived before it had
\* sent its notification
NewJob ==
    [pc |-> "createGitLabBackup", idx |-> 1, lastErr |-> FALSE,
     uploadFile |-> NoFile, deferred |-> FALSE, result |-> "none",
     notified |-> 0, sig |-> FALSE]

\* dir holds the newest backup at the time the runs look for it: runs whose
\* createGitLabBackup calls have all finished before they call
\* findLatestBackup find the same file, and so use the same zipPath
ProcessInit ==
    /\ cfg \in ProcessConfigs
    /\ dir = {FreshBackup}
    /\ localZip = "absent"
    /\ remote = [d \in Remotes(cfg) |-> {}]
    /\ pc = "process"
    /\ idx = 1
    /\ lastErr = FALSE
    /\ backupFile = NoFile
    /\ uploadFile = NoFile
    /\ deferred = FALSE
    /\ warnings = <<>>
    /\ result = "none"
    /\ ops = <<>>
    /\ main = "main"
    /\ cron = "none"
    /\ sigChan = FALSE
    /\ jobs = <<>>
    /\ exitCode = <<>>

runVars == <<pc, idx, lastErr, backupFile, uploadFile, deferred, warnings,
             result, ops>>

\* main: daemon if a schedule is set, otherwise runBackup is called at once
Main ==
    /\ main = "main"
    /\ main' = Dispatch(cfg)
    /\ jobs' = IF Dispatch(cfg) = "runBackup" THEN <<NewJob>> ELSE jobs
    /\ UNCHANGED <<cfg, dir, localZip, remote, cron, sigChan, exitCode>>
    /\ UNCHANGED runVars

\* runWithScheduler up to <-sigChan: cron.New, AddFunc (log.Fatalf on an
\* invalid schedule), c.Start, signal.Notify; signals are modelled from the
\* moment the channel is registered
StartScheduler ==
    /\ main = "runWithScheduler"
    /\ IF ParseFails(cfg)
       THEN /\ main' = "exited"
            /\ exitCode' = <<1>>
            /\ UNCHANGED cron
       ELSE /\ main' = "waitSignal"
            /\ cron' = "running"
            /\ UNCHANGED exitCode
    /\ UNCHANGED <<cfg, dir, localZip, remote, sigChan, jobs>>
    /\ UNCHANGED runVars

\* the schedule is due: cron starts the callback in a goroutine of its own
\* (cron.New is given no SkipIfStillRunning or DelayIfStillRunning wrapper)
Tick ==
    /\ cron = "running"
    /\ main # "exited"
    /\ Len(jobs) < MaxRuns
    /\ jobs' = Append(jobs, NewJob)
    /\ UNCHANGED <<cfg, dir, localZip, remote, main, cron, sigChan, exitCode>>
    /\ UNCHANGED runVars

\* SIGINT or SIGTERM is delivered: buffered in sigChan, dropped when it is full
Signal ==
    /\ main \in {"waitSignal", "draining"}
    /\ ~sigChan
    /\ sigChan' = TRUE
    /\ jobs' = [j \in 1..Len(jobs) |->
                   IF jobs[j].pc \notin Notified
                   THEN [jobs[j] EXCEPT !.sig = TRUE]
                   ELSE jobs[j]]
    /\ UNCHANGED <<cfg, dir, localZip, remote, main, cron, exitCode>>
    /\ UNCHANGED runVars

\* <-sigChan; ctx := c.Stop()
Shutdown ==
    /\ main = "waitSignal"
    /\ sigChan
    /\ sigChan' = FALSE
    /\ cron' = AfterStop(cron)
    /\ main' = "draining"
    /\ UNCHANGED <<cfg, dir, localZip, remote, jobs, exitCode>>
    /\ UNCHANGED runVars

\* <-ctx.Done(); runWithScheduler returns and main returns
Stopped ==
    /\ main = "draining"
    /\ Drained(jobs)
    /\ main' = "exited"
    /\ exitCode' = <<0>>
    /\ UNCHANGED <<cfg, dir, localZip, remote, cron, sigChan, jobs>>
    /\ UNCHANGED runVars

\* without a schedule: runBackup has returned to main
OneShotExit ==
    /\ main = "runBackup"
    /\ jobs[1].pc = "returned"
    /\ jobs' = [jobs EXCEPT ![1].pc = "done"]
    /\ main' = "exited"
    /\ exitCode' = <<ExitCode(jobs[1].result)>>
    /\ UNCHANGED <<cfg, dir, localZip, remote, cron, sigChan>>
    /\ UNCHANGED runVars

\* sendDiscordNotification(cfg, false, ...); return err
JobError(job) ==
    [job EXCEPT !.result = "error",
                !.notified = @ + 1,
                !.pc = IF job.deferred THEN "deferred" ELSE "returned"]

\* the goroutines of the process run as long as the process does
Running(j) == j \in 1..Len(jobs) /\ main # "exited"

\* Step 1 of run j
JobCreateGitLabBackup(j) ==
    /\ Running(j)
    /\ jobs[j].pc = "createGitLabBackup"
    /\ \E out \in {"ok", "exit"} :
          jobs' = [jobs EXCEPT ![j] =
                     IF out = "ok"
                     THEN [@ EXCEPT !.pc = "findLatestBackup"]
                     ELSE JobError(@)]
    /\ UNCHANGED <<cfg, dir, localZip, remote, main, cron, sigChan, exitCode>>
    /\ UNCHANGED runVars

\* Step 2 of run j
JobFindLatestBackup(j) ==
    /\ Running(j)
    /\ jobs[j].pc = "findLatestBackup"
    /\ \E r \in findLatestBackup(cfg, dir) :
          jobs' = [jobs EXCEPT ![j] =
                     IF r.err = "ok"
                     THEN [@ EXCEPT
                             !.uploadFile = r.path,
                             !.pc = IF cfg.ZipPassword THEN "createPasswordZip"
                                                       ELSE "uploadToRemotes"]
                     ELSE JobError(@)]
    /\ UNCHANGED <<cfg, dir, localZip, remote, main, cron, sigChan, exitCode>>
    /\ UNCHANGED runVars

\* Step 2.5 of run j: every run writes the same zipPath
JobCreatePasswordZip(j) ==
    /\ Running(j)
    /\ jobs[j].pc = "createPasswordZip"
    /\ \E out \in {"ok", "create", "open", "encrypt", "copy", "stat"} :
          /\ localZip' \in ZipLeft(out)
          /\ jobs' = [jobs EXCEPT ![j] =
                        IF ~zipFailed(out)
                        THEN [@ EXCEPT
                                !.uploadFile = zipName(@),
                                !.deferred = TRUE,
                                !.pc = "uploadToRemotes"]
                        ELSE JobError(@)]
    /\ UNCHANGED <<cfg, dir, remote, main, cron, sigChan, exitCode>>
    /\ UNCHANGED runVars

\* Step 3 of run j, one iteration of the loop
JobUploadToRemote(j) ==
    /\ Running(j)
    /\ jobs[j].pc = "uploadToRemotes"
    /\ jobs[j].idx \in Remotes(cfg)
    /\ \E out \in {"ok", "fail"} :
          /\ jobs' = [jobs EXCEPT ![j] =
                        [@ EXCEPT
                           !.lastErr = (@ \/ out = "fail"),
                           !.idx = NextRemote(@, out = "fail")]]
          /\ remote' = IF out = "ok"
                       THEN [remote EXCEPT ![jobs[j].idx] =
                                Store(@, Uploaded(jobs[j].uploadFile, Now))]
                       ELSE remote
    /\ UNCHANGED <<cfg, dir, localZip, main, cron, sigChan, exitCode>>
    /\ UNCHANGED runVars

\* Step 3 of run j, after the loop
JobUploadReturn(j) ==
    /\ Running(j)
    /\ jobs[j].pc = "uploadToRemotes"
    /\ jobs[j].idx \notin Remotes(cfg)
    /\ jobs' = [jobs EXCEPT ![j] =
                  IF uploadToRemotesFails(@.lastErr)
                  THEN JobError(@)
                  ELSE [@ EXCEPT !.pc = "pruneOldBackups", !.idx = 1]]
    /\ UNCHANGED <<cfg, dir, localZip, remote, main, cron, sigChan, exitCode>>
    /\ UNCHANGED runVars

\* Step 4 of run j, one iteration
JobPruneRemote(j) ==
    /\ Running(j)
    /\ jobs[j].pc = "pruneOldBackups"
    /\ jobs[j].idx \in Remotes(cfg)
    /\ \E r \in pruneOldBackups(cfg, jobs[j].idx, remote[jobs[j].idx]) :
          remote' = [remote EXCEPT ![jobs[j].idx] = r.files]
    /\ jobs' = [jobs EXCEPT ![j] = [@ EXCEPT !.idx = @ + 1]]
    /\ UNCHANGED <<cfg, dir, localZip, main, cron, sigChan, exitCode>>
    /\ UNCHANGED runVars

\* the final notification of run j; return nil
JobReport(j) ==
    /\ Running(j)
    /\ jobs[j].pc = "pruneOldBackups"
    /\ jobs[j].idx \notin Remotes(cfg)
    /\ jobs' = [jobs EXCEPT ![j] =
                  [@ EXCEPT
                     !.result = "nil",
                     !.notified = @ + 1,
                     !.pc = IF jobs[j].deferred THEN "deferred"
                                                ELSE "returned"]]
    /\ UNCHANGED <<cfg, dir, localZip, remote, main, cron, sigChan, exitCode>>
    /\ UNCHANGED runVars

\* the deferred os.Remove(uploadFile) of run j
JobRemoveZip(j) ==
    /\ Running(j)
    /\ jobs[j].pc = "deferred"
    /\ \E out \in {"ok", "fail"} :
          localZip' = IF out = "ok" THEN "absent" ELSE localZip
    /\ jobs' = [jobs EXCEPT ![j] = [@ EXCEPT !.pc = "returned"]]
    /\ UNCHANGED <<cfg, dir, remote, main, cron, sigChan, exitCode>>
    /\ UNCHANGED runVars

\* runBackup of run j has returned into the callback given to AddFunc
JobCallbackReturn(j) ==
    /\ Running(j)
    /\ main # "runBackup"
    /\ jobs[j].pc = "returned"
    /\ jobs' = [jobs EXCEPT ![j].pc = "done"]
    /\ cron' = SchedulerAfterRun(cron, jobs[j].result)
    /\ UNCHANGED <<cfg, dir, localZip, remote, main, sigChan, exitCode>>
    /\ UNCHANGED runVars

ProcessNext ==
    \/ Main
    \/ StartScheduler
    \/ Tick
    \/ Signal
    \/ Shutdown
    \/ Stopped
    \/ OneShotExit
    \/ \E j \in 1..MaxRuns : JobCreateGitLabBackup(j)
    \/ \E j \in 1..MaxRuns : JobFindLatestBackup(j)
    \/ \E j \in 1..MaxRuns : JobCreatePasswordZip(j)
    \/ \E j \in 1..MaxRuns : JobUploadToRemote(j)
    \/ \E j \in 1..MaxRuns : JobUploadReturn(j)
    \/ \E j \in 1..MaxRuns : JobPruneRemote(j)
    \/ \E j \in 1..MaxRuns : JobReport(j)
    \/ \E j \in 1..MaxRuns : JobRemoveZip(j)
    \/ \E j \in 1..MaxRuns : JobCallbackReturn(j)

ProcessSpec == ProcessInit /\ [][ProcessNext]_vars

-----------------------------------------------------------------------------
(* Vocabulary of the properties of the process *)

\* the runs that are executing the pipeline
Executing == {j \in 1..Len(jobs) : jobs[j].pc \notin {"returned", "done"}}

JobFailed(j) == jobs[j].pc = "done" /\ jobs[j].result = "error"

\* C11: in daemon mode no two pipeline runs are ever executing at the same
\* time: a tick that fires while a run is executing does not start a second
\* run next to it.
C11_SingleFlight == Cardinality(Executing) <= 1

\* C12: in daemon mode a failed run stops neither the scheduler nor the
\* process: as long as no signal has arrived the process waits in
\* runWithScheduler with the scheduler running, and the next tick starts a
\* new run, however many runs have failed.
C12_FailedRunKeepsScheduling ==
    (cron # "none" /\ ~sigChan /\ main \notin {"draining", "exited"}) =>
        /\ main = "waitSignal"
        /\ cron = "running"
        /\ Len(jobs) < MaxRuns => ENABLED Tick

\* every run so far has failed, and a tick can start the next one
C12_Witness ==
    /\ main = "waitSignal"
    /\ ~sigChan
    /\ jobs # <<>>
    /\ \A j \in 1..Len(jobs) : JobFailed(j)
    /\ Len(jobs) < MaxRuns
    /\ ENABLED Tick

\* C13: once the daemon has received a signal and stopped the scheduler, no
\* new run is started by any later step.
C13_NoRunStartedAfterStop ==
    [][(main \in {"draining", "exited"}) => (Len(jobs') = Len(jobs))]_vars

\* the daemon has shut down with fewer runs started than the bound allows
C13_Witness ==
    /\ main = "exited"
    /\ cron = "stopped"
    /\ exitCode = <<0>>
    /\ Len(jobs) < MaxRuns

\* C14: a signal that arrives while a run is in flight does not interrupt it:
\* when runWithScheduler has returned, every run the signal found before its
\* notification has gone through its remaining stages, sent its one
\* notification and returned, and no run at all is still in flight.
C14_InFlightRunsFinishBeforeStopped ==
    (main = "exited" /\ cron # "none") =>
        /\ InFlight(jobs) = {}
        /\ \A j \in 1..Len(jobs) :
              jobs[j].sig => /\ jobs[j].result # "none"
                             /\ jobs[j].notified = 1

\* two runs were in flight when the signal arrived, and both completed
C14_Witness ==
    /\ main = "exited"
    /\ Len(jobs) >= 2
    /\ \A j \in 1..Len(jobs) : jobs[j].sig /\ jobs[j].result = "nil"

\* C15: with an invalid cron expression daemon start-up is fatal: the
\* scheduler is never started, no run is ever executed, and the process exits
\* with a non-zero code.
C15_InvalidScheduleIsFatal ==
    cfg.CronSchedule = "invalid" =>
        /\ cron = "none"
        /\ jobs = <<>>
        /\ main \in {"main", "runWithScheduler", "exited"}
        /\ main = "exited" => exitCode = <<1>>

C15_Witness ==
    /\ cfg.CronSchedule = "invalid"
    /\ main = "exited"
    /\ exitCode = <<1>>

\* C18: a one-shot run exits non-zero exactly when runBackup failed; a
\* scheduled daemon does not exit while its scheduler runs, whatever its runs
\* returned, and exits 0 only after the signal made it stop the scheduler.
C18_ExitCodes ==
    main = "exited" =>
        /\ cfg.CronSchedule = "" =>
              /\ Len(jobs) = 1
              /\ jobs[1].result \in {"nil", "error"}
              /\ exitCode # <<0>> <=> jobs[1].result = "error"
              /\ exitCode = <<0>> <=> jobs[1].result = "nil"
        /\ cfg.CronSchedule = "valid" =>
              /\ cron = "stopped"
              /\ exitCode = <<0>>
        /\ (cfg.CronSchedule # "" /\ exitCode = <<0>>) => cron = "stopped"

\* a failed one-shot run
C18_Witness ==
    /\ main = "exited"
    /\ cfg.CronSchedule = ""
    /\ jobs[1].result = "error"
    /\ exitCode = <<1>>

\* C19: with the "run immediately" flag set the process performs one run at
\* once and exits without starting the scheduler, even if a cron expression
\* is configured as well.
C19_RunOnceBypassesSchedule ==
    cfg.RunOnce =>
        /\ cron = "none"
        /\ main \in {"main", "runBackup", "exited"}
        /\ main # "main" => Len(jobs) = 1

-----------------------------------------------------------------------------
(* Notification delivery and the outcome of a run (under Spec) *)

\* the operations of the stages other than the notification
StageOps(log) == SelectSeq(log, LAMBDA o : o.op # "notify")

\* a step of runBackup that calls sendDiscordNotification
IsNotifyStep == Len(ops') > Len(ops) /\ ops'[Len(ops')].op = "notify"

\* C20: a delivery failure is never escalated. In the step that notifies, the
\* value runBackup will return and the position it continues at follow from
\* the stage it was in alone, whether a webhook is configured or not and
\* whatever became of the POST; after the notification the run performs the
\* deferred removal, if one is registered, and nothing else.
C20_DeliveryNeverEscalated ==
    [][/\ IsNotifyStep =>
            /\ result' = (IF pc = "pruneOldBackups" THEN "nil" ELSE "error")
            /\ pc' = (IF deferred' THEN "deferred" ELSE "returned")
            /\ Len(StageOps(ops')) <= Len(StageOps(ops)) + 1
            /\ UNCHANGED <<cfg, dir, remote, idx, lastErr, warnings>>
       /\ result # "none" =>
            /\ pc = "deferred" /\ deferred
            /\ pc' = "returned"
            /\ result' = result
            /\ \E out \in {"ok", "fail"} :
                  ops' = Append(ops, Call("remove", 0, uploadFile, out))
      ]_vars

\* a run whose POST failed at transport level returned nil and went on to
\* remove its archive
C20_Witness ==
    /\ Returned
    /\ result = "nil"
    /\ \E k \in NotifyOps : ops[k].out = "transport"
    /\ RemoveOps # {}

-----------------------------------------------------------------------------
(* Retention within a run (under Spec) *)

Prunes == OpSeq("prune")

\* the run got past replication: every copy was made and none failed
ReachedPruning == ReplicationFinished /\ Len(Copies) = N /\ Failed("copy") = {}

\* C21: in a run that reaches the pruning stage retention is called once for
\* every configured destination, in configured order, and an error of
\* pruneOldBackups at one destination (listing, parsing, invalid pattern)
\* does not keep it from being called for the destinations after it.
C21_RetentionAttemptedAtEveryDestination ==
    LET prunes == Prunes IN
    /\ prunes # <<>> => ReachedPruning
    /\ \A k \in 1..Len(prunes) : prunes[k].dest = k
    /\ (Returned /\ ReachedPruning) => Len(prunes) = N

\* retention failed at the first destination and was still called for the
\* second
C21_Witness ==
    /\ Returned
    /\ N >= 2
    /\ Len(Prunes) = N
    /\ Prunes[1].out # "ok"

-----------------------------------------------------------------------------
(* Failed deletions and the filter of pruneOldBackups (under RetentionSpec) *)

NewDeletePaths == {NewDeleteCalls[k].path : k \in 1..Len(NewDeleteCalls)}
NewListingOk == Len(NewOps) >= 2 /\ NewOps[2].op = "lsjson" /\ NewOps[2].out = "ok"

\* C22: within one call of pruneOldBackups a failed deletion is skipped: with
\* M matching objects and keep count K, 0 < K < M, deletefile is called
\* exactly once for each of the M-K objects beyond the K newest, whichever of
\* these calls fail; a failed call leaves its object in place, a successful
\* one removes it, and the call returns no error.
C22_FailedDeletionIsSkipped ==
    [][(IsPruneStep /\ NewListingOk /\ ~ErrBadPattern(cfg.BackupPattern)) =>
        LET matches == Backups(cfg, remote[1])
            M       == Cardinality(matches)
            K       == cfg.NumBackupsToKeep
            tried   == {f \in matches : f.Path \in NewDeletePaths}
        IN  (0 < K /\ K < M) =>
              /\ NewOps[1].out = "ok"
              /\ Len(NewDeleteCalls) = M - K
              /\ Cardinality(NewDeletePaths) = M - K
              /\ Cardinality(tried) = M - K
              /\ \A x \in tried : \A y \in matches \ tried : x.ModTime <= y.ModTime
              /\ \A k \in 1..Len(NewDeleteCalls) :
                    LET f == CHOOSE g \in tried : g.Path = NewDeleteCalls[k].path
                    IN  (NewDeleteCalls[k].out = "ok") <=> (f \notin remote'[1])
      ]_vars

\* a call whose first deletion failed and whose second succeeded
C22_Witness ==
    /\ pc = "retention"
    /\ Len(ops) = 4
    /\ ops[1].op = "prune" /\ ops[1].out = "ok"
    /\ ops[2].op = "lsjson" /\ ops[2].out = "ok"
    /\ ops[3].op = "deletefile" /\ ops[3].out = "fail"
    /\ ops[4].op = "deletefile" /\ ops[4].out = "ok"
    /\ \E f \in remote[1] : f.Path = ops[3].path

\* the objects retention is to consider: not a directory, and the name
\* matches the backup pattern or the backup pattern followed by ".zip"
Considered(files) ==
    {f \in files :
        /\ ~f.IsDir
        /\ ~ErrBadPattern(cfg.BackupPattern)
        /\ \/ GlobMatch(cfg.BackupPattern, f.Path)
           \/ GlobMatch(cfg.BackupPattern \o <<ZipSuffix>>, f.Path)}

\* C23: retention considers exactly the non-directory objects whose name
\* matches the backup pattern or the pattern with ".zip" appended: plain and
\* zipped backups count together toward the keep count (with a successful
\* listing, deletefile is called iff their number exceeds K > 0, and then for
\* all but K of them), and no other object is ever deleted or named in a
\* deletefile call.
C23_RetentionFilter ==
    [][IsPruneStep =>
        LET considered == Considered(remote[1])
            M          == Cardinality(considered)
            K          == cfg.NumBackupsToKeep
        IN  /\ remote[1] \ considered \subseteq remote'[1]
            /\ NewDeletePaths \subseteq {f.Path : f \in considered}
            /\ (NewListingOk /\ K > 0) =>
                  Len(NewDeleteCalls) = Max(0, M - K)
            /\ ~(NewListingOk /\ K > 0) => NewDeleteCalls = <<>>
      ]_vars

\* one plain and one zipped backup counted together against K = 1: the zipped
\* one was deleted, the unrelated file and the directory were left alone
C23_Witness ==
    /\ pc = "retention"
    /\ cfg.NumBackupsToKeep = 1
    /\ Len(ops) = 3
    /\ ops[3].op = "deletefile" /\ ops[3].out = "ok"
    /\ ops[3].path = <<"c", TarSuffix, ZipSuffix>>
    /\ Bystanders \subseteq remote[1]
    /\ Cardinality(remote[1]) = 3
    /\ \E f \in remote[1] : f.Path \in {<<"a", TarSuffix>>, <<"b", TarSuffix>>}

-----------------------------------------------------------------------------
(* Encryption and the payload of a run (under Spec) *)

ZipOps == OpsOf("zip")

\* the run has left the discovery stage with a backup file
PastDiscovery == DiscoveryOk /\ pc # "findLatestBackup"

\* C24: createPasswordZip is called in a run (that found its backup) iff a
\* password is configured, and then once; without a password every copy
\* carries the discovered backup file itself; with a password every copy
\* carries the zip made from it, which is never the plain backup file.
C24_PayloadFollowsPassword ==
    LET zips == ZipOps IN
    /\ zips # {} => cfg.ZipPassword
    /\ (PastDiscovery /\ pc # "createPasswordZip") =>
          Cardinality(zips) = (IF cfg.ZipPassword THEN 1 ELSE 0)
    /\ \A k \in OpsOf("copy") :
          /\ backupFile # NoFile
          /\ ~cfg.ZipPassword => ops[k].path = backupFile
          /\ cfg.ZipPassword =>
                /\ zips # {}
                /\ \A z \in zips : /\ z < k
                                     /\ ops[z].out = "ok"
                                     /\ ops[z].path = ops[k].path
                /\ ops[k].path = backupFile \o <<ZipSuffix>>
                /\ ops[k].path # backupFile

\* with a password, both remotes received the zip
C24_Witness ==
    /\ Returned
    /\ cfg.ZipPassword
    /\ N >= 2
    /\ Len(Copies) = N
    /\ \A k \in OpsOf("copy") : ops[k].out = "ok" /\ ops[k].path # backupFile

\* createPasswordZip has just returned to runBackup
ZipJustReturned == ops # <<>> /\ ops[Len(ops)].op = "zip"

\* C25: createPasswordZip returns success only if the archive exists at
\* zipPath and is not empty; a file of size zero is reported as a failure.
C25_SuccessOnlyIfArchiveNonEmpty ==
    ZipJustReturned =>
        (ops[Len(ops)].out = "ok" <=> localZip = "complete")

\* createPasswordZip failed after os.Create had created the output file
FailedAfterCreate == \E k \in ZipOps : ops[k].out \in {"open", "encrypt", "copy"}

\* C29: if encryption fails after the output file has been created (the
\* source cannot be opened, the encrypted entry cannot be created, the copy of
\* the content fails), no file is left at the output path when the run ends.
C29_NoArchiveLeftAfterFailedEncryption ==
    (Returned /\ FailedAfterCreate) => localZip = "absent"

\* the positions of the listing, deletion and pruneOldBackups calls
RetentionCalls ==
    {k \in 1..Len(ops) : ops[k].op \in {"prune", "lsjson", "deletefile"}}

\* the destinations a successful copy was made to before every position of K
CopiedBefore(K) ==
    {ops[c].dest : c \in {x \in 1..Len(ops) :
                             /\ ops[x].op = "copy"
                             /\ ops[x].out = "ok"
                             /\ \A k \in K : x < k}}

\* C27: in any run a listing or deletion call (and the call of
\* pruneOldBackups around them) is made only after the copy to every
\* configured destination has succeeded in this run; a run in which some copy
\* failed makes no such call and deletes nothing.
C27_RetentionOnlyAfterAllCopiesSucceeded ==
    LET calls == RetentionCalls IN
    calls # {} => /\ CopiedBefore(calls) = Remotes(cfg)
                  /\ Failed("copy") = {}

\* objects were deleted at both destinations of a run whose copies all
\* succeeded
C27_Witness ==
    /\ Returned
    /\ N >= 2
    /\ Failed("copy") = {}
    /\ \A d \in Remotes(cfg) :
          \E k \in OpsOf("deletefile") : ops[k].dest = d /\ ops[k].out = "ok"

-----------------------------------------------------------------------------
(* Local files of a run (under Spec) *)

\* the calls of os.Remove in the log after the step
RemovesAfter == {k \in 1..Len(ops') : ops'[k].op = "remove"}

\* C30: no step of a run deletes or changes a file of the backup directory,
\* the discovered backup among them; the only local file a run removes is
\* the zip that its own createPasswordZip has written, and without a password
\* a run removes no local file and leaves the zip path as it was.
C30_SourceArtifactUntouched ==
    [][/\ dir' = dir
       /\ \A k \in RemovesAfter :
             /\ cfg.ZipPassword
             /\ \E z \in ZipOps : z < k /\ ops[z].out = "ok" /\ ops[z].path = ops'[k].path
             /\ ops'[k].path # backupFile
             /\ ops'[k].path \notin {f.name : f \in dir}
       /\ ~cfg.ZipPassword => (RemovesAfter = {} /\ localZip' = localZip)
      ]_vars

\* the zip was removed and the backup it was made from is still in place
C30_Witness ==
    /\ Returned
    /\ cfg.ZipPassword
    /\ \E k \in RemoveOps : ops[k].out = "ok"
    /\ localZip = "absent"
    /\ \E f \in dir : f.name = backupFile

-----------------------------------------------------------------------------
(* The archive of a run among the other runs (under ProcessSpec) *)

\* run j has made its zip and its copies are not all done
Replicating(j) ==
    /\ jobs[j].deferred
    /\ jobs[j].pc = "uploadToRemotes"
    /\ jobs[j].idx \in Remotes(cfg)

\* C28: with a password configured in daemon mode, the zip a run has made is
\* on disk, whole, from the end of its createPasswordZip until its copies are
\* done, under every interleaving of the scheduled runs: no other run removes
\* it or writes over it in the meantime.
C28_ArchiveKeptDuringReplication ==
    \A j \in 1..Len(jobs) :
        Replicating(j) => localZip \notin {"absent", "partial"}

-----------------------------------------------------------------------------
(* The process under fairness: goroutines that can take a step do take it  *)

\* a step of run j: each of its external calls returns
JobStep(j) ==
    \/ JobCreateGitLabBackup(j)
    \/ JobFindLatestBackup(j)
    \/ JobCreatePasswordZip(j)
    \/ JobUploadToRemote(j)
    \/ JobUploadReturn(j)
    \/ JobPruneRemote(j)
    \/ JobReport(j)
    \/ JobRemoveZip(j)
    \/ JobCallbackReturn(j)

\* the Go scheduler keeps running goroutines while one is runnable: main
\* (receiving from sigChan and from ctx.Done()) or the goroutine of a run;
\* ticks and signals come from outside and are not forced. This asks less
\* than fairness to each goroutine, which the Go scheduler also gives.
Fairness ==
    WF_vars(Shutdown \/ Stopped \/ \E j \in 1..MaxRuns : JobStep(j))

\* the process as a daemon: a schedule is set (valid or not), -now is not
\* given and a password is configured, so that every run has every stage
DaemonInit ==
    /\ ProcessInit
    /\ cfg.CronSchedule # ""
    /\ ~cfg.RunOnce
    /\ cfg.ZipPassword

DaemonNext ==
    \/ Main
    \/ StartScheduler
    \/ Tick
    \/ Signal
    \/ Shutdown
    \/ Stopped
    \/ \E j \in 1..MaxRuns : JobStep(j)

FairProcessSpec == DaemonInit /\ [][DaemonNext]_vars /\ Fairness

\* C26: under fairness, with every external call of the runs in flight
\* returning, a signal delivered to the waiting daemon leads to
\* runWithScheduler returning and the process exiting, however many runs were
\* in flight when it arrived.
C26_SignalLeadsToStopped ==
    (main = "waitSignal" /\ sigChan) ~> (main = "exited" /\ exitCode = <<0>>)

\* the daemon has stopped after a signal that found one run in flight and
\* another one already finished
C26_Witness ==
    /\ main = "exited"
    /\ exitCode = <<0>>
    /\ Len(jobs) = MaxRuns
    /\ \E j \in 1..Len(jobs) : jobs[j].sig
    /\ \E j \in 1..Len(jobs) : ~jobs[j].sig

=============================================================================
